---- MODULE Spec2Model ----
(***************************************************************************)
(* A model of cmd/root.go of act: the resolution of the filter plan and    *)
(* the execution plan in newRunCommand, the lifecycle of the artifact      *)
(* service around the plan executor, the watch loop of watchAndRun, the    *)
(* argument merge of args()/readArgsFile and the key-value overlay of      *)
(* parseEnvs/readEnvs.                                                     *)
(*                                                                         *)
(* Strings that the code only compares are TLA+ strings; strings that the  *)
(* code cuts (config-file lines, key=value tokens) are sequences of        *)
(* one-character strings.                                                  *)
(***************************************************************************)
EXTENDS Integers, Sequences, FiniteSets, TLC

VARIABLES
    \* ---- newRunCommand: inputs (flags, positional arguments, planner) ----
    cmdArgs,            \* args: the positional arguments, at most one
    jobID,              \* --job, "" when not given
    autodetectEvent,    \* input.autodetectEvent
    events,             \* planner.GetEvents()
    list,               \* --list
    graph,              \* --graph
    watch,              \* --watch
    artifactServerPath, \* input.artifactServerPath
    \* ---- newRunCommand: locals ----
    pc,                 \* position of the foreground task
    filterEventName,
    filterPlan,
    eventName,
    plan,
    stageErr,           \* what the plan executor's main stage returned
    result,             \* what the invocation returned
    \* ---- artifact service ----
    serveStarts,        \* how many times artifacts.Serve started a service
    cancelCalls,        \* how many times Serve's cancel function was called
    \* ---- plan executor ----
    execCalls,          \* how many passes have started
    inProgress,         \* how many passes are running now
    outcomes,           \* what each finished pass returned, in order
    \* ---- watchAndRun ----
    ctxDone,            \* ctx.Done() is closed
    err,                \* the err variable shared with the goroutine
    bpc,                \* position of the background goroutine
    running,            \* folderWatcher.running
    wasStopped,         \* folderWatcher.wasStopped
    pending,            \* change batches detected and not yet received
    detected,           \* change batches detected so far
    received,           \* change batches received by the loop so far
    \* ---- watchAndRun: history ----
    callsAtStop,        \* execCalls when folderWatcher.Stop() was called
    cancelPass,         \* the pass running when ctx was cancelled, else 0
    \* ---- args() ----
    apc,                \* position in args()
    cand,               \* the candidate the loop of args() is at
    fsys,               \* the candidate config files: exists, content
    osArgs,             \* os.Args[1:]
    argsOut,            \* the args slice being built
    \* ---- parseEnvs / readEnvs ----
    epc,                \* position in the overlay
    envTokens,          \* input.envs
    envFile,            \* the env file: state, vars (what godotenv.Read gives)
    envs                \* the envs map

runInputs == <<cmdArgs, jobID, autodetectEvent, events, list, graph, watch,
               artifactServerPath>>
planVars  == <<filterEventName, filterPlan, eventName, plan>>
svcVars   == <<serveStarts, cancelCalls>>
execVars  == <<execCalls, inProgress, outcomes>>
watcherVars == <<running, wasStopped, pending, detected, received>>
histVars  == <<callsAtStop, cancelPass>>
watchVars == <<ctxDone, err, bpc, watcherVars, histVars>>
runVars   == <<runInputs, pc, planVars, stageErr, result, svcVars, execVars,
               watchVars>>
argsVars  == <<apc, cand, fsys, osArgs, argsOut>>
envVars   == <<epc, envTokens, envFile, envs>>
vars      == <<runVars, argsVars, envVars>>

----------------------------------------------------------------------------
(* Bounds of the model *)

\* the longest list planner.GetEvents() returns
MaxEvents == 2
\* how many execution passes one watch session is followed through
MaxPasses == 4
\* how many change batches the watcher detects
MaxBatches == 3
\* how many characters the candidate config files hold together
MaxChars == 4
\* the longest key=value token, and the longest list of tokens
MaxTokLen == 3
MaxTokens == 2

----------------------------------------------------------------------------
(* The workflow planner: PlanJob, PlanEvent, PlanAll and GetEvents *)

PlanJob(j)   == [kind |-> "job",   name |-> j]
PlanEvent(e) == [kind |-> "event", name |-> e]
PlanAll      == [kind |-> "all",   name |-> ""]
NoPlan       == [kind |-> "none",  name |-> ""]

\* event names a workflow can declare; `on:` with no value gives ""
EventNames == {"", "pull_request", "push"}

\* an ordered list, possibly empty, possibly with duplicates
EventLists == UNION {[1..n -> EventNames] : n \in 0..MaxEvents}

\* cobra.MaximumNArgs(1): no positional argument, or one (which may be "")
PositionalArgs == {<<>>, <<"">>, <<"release">>}

JobIDs == {"", "build"}

----------------------------------------------------------------------------
(* Errors *)

NilErr      == [kind |-> "nil",   pass |-> 0]
ExecErr(k)  == [kind |-> "exec",  pass |-> k]
GetwdErr    == [kind |-> "getwd", pass |-> 0]
NewErr      == [kind |-> "new",   pass |-> 0]
NotReturned == [kind |-> "none",  pass |-> 0]

----------------------------------------------------------------------------
(* newRunCommand: the filter plan, lines 353-378 *)

\* a slip: the single-event shortcut of the execution plan copied over
FilterEventNameForShortcut(a, auto, ev) ==
    IF Len(a) > 0 THEN a[1]
    ELSE IF Len(ev) = 1 /\ ev[1] # "" THEN ev[1]
    ELSE IF auto /\ Len(ev) > 0 /\ ev[1] # "" THEN ev[1]
    ELSE ""

FilterEventNameFor(a, auto, ev) ==
    IF Len(a) > 0 THEN a[1]
    ELSE IF auto /\ Len(ev) > 0 /\ ev[1] # "" THEN ev[1]
    ELSE ""

FilterPlanFor(j, name) ==
    IF j # "" THEN PlanJob(j)
    ELSE IF name # "" THEN PlanEvent(name)
    ELSE PlanAll

ResolveFilterPlan ==
    /\ pc = "filter"
    /\ filterEventName' = FilterEventNameFor(cmdArgs, autodetectEvent, events)
    /\ filterPlan' = FilterPlanFor(jobID, filterEventName')
    /\ pc' = "listgraph"
    /\ UNCHANGED <<runInputs, eventName, plan, stageErr, result, svcVars,
                   execVars, watchVars, argsVars, envVars>>

(* newRunCommand: list and graph, lines 380-386 *)

PrintList ==
    /\ pc = "listgraph"
    /\ list
    /\ result' = NilErr
    /\ pc' = "done"
    /\ UNCHANGED <<runInputs, planVars, stageErr, svcVars, execVars,
                   watchVars, argsVars, envVars>>

DrawGraph ==
    /\ pc = "listgraph"
    /\ ~list
    /\ graph
    /\ result' = NilErr
    /\ pc' = "done"
    /\ UNCHANGED <<runInputs, planVars, stageErr, svcVars, execVars,
                   watchVars, argsVars, envVars>>

(* newRunCommand: the execution plan, lines 388-417 *)

\* a slip: the single-event shortcut left out
EventNameForNoShortcut(a, auto, ev) ==
    IF Len(a) > 0 THEN a[1]
    ELSE IF auto /\ Len(ev) > 0 /\ ev[1] # "" THEN ev[1]
    ELSE "push"

EventNameFor(a, auto, ev) ==
    IF Len(a) > 0 THEN a[1]
    ELSE IF Len(ev) = 1 /\ ev[1] # "" THEN ev[1]
    ELSE IF auto /\ Len(ev) > 0 /\ ev[1] # "" THEN ev[1]
    ELSE "push"

PlanFor(j, name) ==
    IF j # "" THEN PlanJob(j) ELSE PlanEvent(name)

\* a slip: the return after drawGraph is missing, so --graph goes on to run
ResolveExecPlanAfterGraph ==
    /\ pc = "listgraph"
    /\ ~list
    /\ eventName' = EventNameFor(cmdArgs, autodetectEvent, events)
    /\ plan' = PlanFor(jobID, eventName')
    /\ pc' = "planned"
    /\ UNCHANGED <<runInputs, filterEventName, filterPlan, stageErr, result,
                   svcVars, execVars, watchVars, argsVars, envVars>>

ResolveExecPlan ==
    /\ pc = "listgraph"
    /\ ~list
    /\ ~graph
    /\ eventName' = EventNameFor(cmdArgs, autodetectEvent, events)
    /\ plan' = PlanFor(jobID, eventName')
    /\ pc' = "planned"
    /\ UNCHANGED <<runInputs, filterEventName, filterPlan, stageErr, result,
                   svcVars, execVars, watchVars, argsVars, envVars>>

----------------------------------------------------------------------------
(* newRunCommand: runner.New and artifacts.Serve, lines 493-498 *)

\* runner.New(config) fails: the error is returned before the service starts
RunnerNewFails ==
    /\ pc = "planned"
    /\ result' = NewErr
    /\ pc' = "done"
    /\ UNCHANGED <<runInputs, planVars, stageErr, svcVars, execVars,
                   watchVars, argsVars, envVars>>

\* artifacts.Serve starts no service for an empty storage path
ServeStartsFor(path) == IF path = "" THEN 0 ELSE 1

\* a slip: the service is not started
ServeArtifactsSkipped ==
    /\ pc = "planned"
    /\ pc' = "served"
    /\ UNCHANGED <<runInputs, planVars, stageErr, result, svcVars, execVars,
                   watchVars, argsVars, envVars>>

ServeArtifacts ==
    /\ pc = "planned"
    /\ serveStarts' = serveStarts + ServeStartsFor(artifactServerPath)
    /\ pc' = "served"
    /\ UNCHANGED <<runInputs, planVars, stageErr, result, cancelCalls,
                   execVars, watchVars, argsVars, envVars>>

----------------------------------------------------------------------------
(* newRunCommand without --watch: the executor and its Finally stage,      *)
(* lines 507-511                                                           *)

\* Executor.Finally: the cleanup stage runs after the main stage whatever it
\* returned, and the chain returns the main stage's error
FinallyResult(mainErr, cleanupErr) == mainErr

\* executor(ctx) is called: the main stage of the plan executor starts
ExecStart ==
    /\ pc = "served"
    /\ ~watch
    /\ execCalls' = execCalls + 1
    /\ inProgress' = inProgress + 1
    /\ pc' = "exec"
    /\ UNCHANGED <<runInputs, planVars, stageErr, result, svcVars, outcomes,
                   watchVars, argsVars, envVars>>

\* the main stage returns, with or without an error
ExecMainEnd ==
    /\ pc = "exec"
    /\ \E failed \in BOOLEAN :
          stageErr' = IF failed THEN ExecErr(execCalls) ELSE NilErr
    /\ outcomes' = Append(outcomes, stageErr')
    /\ inProgress' = inProgress - 1
    /\ pc' = "finally"
    /\ UNCHANGED <<runInputs, planVars, result, svcVars, execCalls,
                   watchVars, argsVars, envVars>>

\* a slip: the cleanup stage calls cancel only after a successful run
ExecFinallyOnSuccess ==
    /\ pc = "finally"
    /\ cancelCalls' = IF stageErr = NilErr THEN cancelCalls + 1
                                           ELSE cancelCalls
    /\ pc' = "return"
    /\ UNCHANGED <<runInputs, planVars, stageErr, result, serveStarts,
                   execVars, watchVars, argsVars, envVars>>

\* the cleanup stage: cancel(); return nil
ExecFinally ==
    /\ pc = "finally"
    /\ cancelCalls' = cancelCalls + 1
    /\ pc' = "return"
    /\ UNCHANGED <<runInputs, planVars, stageErr, result, serveStarts,
                   execVars, watchVars, argsVars, envVars>>

\* return executor(ctx)
ExecReturn ==
    /\ pc = "return"
    /\ result' = FinallyResult(stageErr, NilErr)
    /\ pc' = "done"
    /\ UNCHANGED <<runInputs, planVars, stageErr, svcVars, execVars,
                   watchVars, argsVars, envVars>>

----------------------------------------------------------------------------
(* watchAndRun, lines 558-600: the foreground task *)

\* the context is cancelled (a signal): ctx.Done() is closed. Nothing reads
\* the context before newRunCommand reaches line 498, and without --watch
\* only the plan executor reads it
CtxCancel ==
    /\ watch
    /\ pc \in {"served", "wait"}
    /\ ~ctxDone
    /\ ctxDone' = TRUE
    /\ cancelPass' = IF inProgress > 0 THEN execCalls ELSE 0
    /\ UNCHANGED <<runInputs, pc, planVars, stageErr, result, svcVars,
                   execVars, err, bpc, watcherVars, callsAtStop, argsVars,
                   envVars>>

\* os.Getwd() fails: watchAndRun returns its error, lines 561-564
WatchGetwdFails ==
    /\ pc = "served"
    /\ watch
    /\ result' = GetwdErr
    /\ pc' = "done"
    /\ UNCHANGED <<runInputs, planVars, stageErr, svcVars, execVars,
                   watchVars, argsVars, envVars>>

\* folderWatcher.Start() and the go statement, lines 573-596
WatchStart ==
    /\ pc = "served"
    /\ watch
    /\ running' = TRUE
    /\ bpc' = "check"
    /\ pc' = "wait"
    /\ UNCHANGED <<runInputs, planVars, stageErr, result, svcVars, execVars,
                   ctxDone, err, wasStopped, pending, detected, received,
                   histVars, argsVars, envVars>>

\* <-ctx.Done() returns and folderWatcher.Stop() is called, lines 597-598
FgStop ==
    /\ pc = "wait"
    /\ ctxDone
    /\ wasStopped' = TRUE
    /\ callsAtStop' = execCalls
    /\ pc' = "wreturn"
    /\ UNCHANGED <<runInputs, planVars, stageErr, result, svcVars, execVars,
                   ctxDone, err, bpc, running, pending, detected, received,
                   cancelPass, argsVars, envVars>>

\* return err, line 599: err is read without waiting for the goroutine
FgReturn ==
    /\ pc = "wreturn"
    /\ result' = err
    /\ pc' = "done"
    /\ UNCHANGED <<runInputs, planVars, stageErr, svcVars, execVars,
                   watchVars, argsVars, envVars>>

----------------------------------------------------------------------------
(* watchAndRun, lines 582-596: the goroutine *)

fgVars == <<runInputs, pc, planVars, stageErr, result, svcVars>>

\* for folderWatcher.IsRunning(), line 583
BgCheck ==
    /\ bpc = "check"
    /\ bpc' = IF running THEN "call" ELSE "exit"
    /\ UNCHANGED <<fgVars, execVars, ctxDone, err, watcherVars, histVars,
                   argsVars, envVars>>

\* fn(ctx) is called at line 584: the pass of this turn of the outer loop
BgCall ==
    /\ bpc = "call"
    /\ execCalls < MaxPasses
    /\ execCalls' = execCalls + 1
    /\ inProgress' = inProgress + 1
    /\ bpc' = "pass"
    /\ UNCHANGED <<fgVars, outcomes, ctxDone, err, watcherVars, histVars,
                   argsVars, envVars>>

\* fn(ctx) of line 584 returns: err is assigned; an error breaks out of the
\* outer loop, lines 584-587
BgPassEnd ==
    /\ bpc = "pass"
    /\ \E failed \in BOOLEAN :
          err' = IF failed THEN ExecErr(execCalls) ELSE NilErr
    /\ outcomes' = Append(outcomes, err')
    /\ inProgress' = inProgress - 1
    /\ bpc' = IF err' # NilErr THEN "exit" ELSE "recv"
    /\ UNCHANGED <<fgVars, execCalls, ctxDone, watcherVars, histVars,
                   argsVars, envVars>>

\* a slip: a batch is received and logged, and fn is not called
BgRecvDropsBatch ==
    /\ bpc = "recv"
    /\ pending > 0
    /\ pending' = pending - 1
    /\ received' = received + 1
    /\ UNCHANGED <<fgVars, execVars, bpc, ctxDone, err, running, wasStopped,
                   detected, histVars, argsVars, envVars>>

\* range folderWatcher.ChangeDetails() receives a batch and fn(ctx) is called
\* at line 590
BgRecv ==
    /\ bpc = "recv"
    /\ pending > 0
    /\ execCalls < MaxPasses
    /\ pending' = pending - 1
    /\ received' = received + 1
    /\ execCalls' = execCalls + 1
    /\ inProgress' = inProgress + 1
    /\ bpc' = "batchpass"
    /\ UNCHANGED <<fgVars, outcomes, ctxDone, err, running, wasStopped,
                   detected, histVars, argsVars, envVars>>

\* fn(ctx) of line 590 returns: err is assigned; an error breaks out of the
\* range loop only, and the outer loop tests IsRunning() again, lines 590-595
BgBatchPassEnd ==
    /\ bpc = "batchpass"
    /\ \E failed \in BOOLEAN :
          err' = IF failed THEN ExecErr(execCalls) ELSE NilErr
    /\ outcomes' = Append(outcomes, err')
    /\ inProgress' = inProgress - 1
    /\ bpc' = IF err' # NilErr THEN "check" ELSE "recv"
    /\ UNCHANGED <<fgVars, execCalls, ctxDone, watcherVars, histVars,
                   argsVars, envVars>>

----------------------------------------------------------------------------
(* fswatch.FolderWatcher: the polling goroutine started by Start() *)

\* a poll finds changes and a sender blocks on the unbuffered ChangeDetails
\* channel; the poll loop runs while wasStopped is false
WatcherDetect ==
    /\ running
    /\ ~wasStopped
    /\ detected < MaxBatches
    /\ detected' = detected + 1
    /\ pending' = pending + 1
    /\ UNCHANGED <<fgVars, execVars, ctxDone, err, bpc, running, wasStopped,
                   received, histVars, argsVars, envVars>>

\* the poll loop sees wasStopped and ends: IsRunning() is false from here.
\* The channel is never closed
WatcherHalt ==
    /\ running
    /\ wasStopped
    /\ running' = FALSE
    /\ UNCHANGED <<fgVars, execVars, ctxDone, err, bpc, wasStopped, pending,
                   detected, received, histVars, argsVars, envVars>>

----------------------------------------------------------------------------
(* args() and readArgsFile, lines 95-126 and 225-247 *)

\* configLocations() returns three candidates
NumCandidates == 3

Whitespace == {" "}
FileChars  == {"-", " ", "a", "\n"}

\* the first index of s whose character is in set, 0 if there is none
FirstIn(s, set) ==
    IF \E i \in 1..Len(s) : s[i] \in set
    THEN CHOOSE i \in 1..Len(s) :
            s[i] \in set /\ \A j \in 1..(i - 1) : s[j] \notin set
    ELSE 0

\* bufio.Scanner with the default split function: the text up to each
\* newline, and what follows the last newline if it is not empty
RECURSIVE ScanLines(_)
ScanLines(content) ==
    IF content = <<>> THEN <<>>
    ELSE LET i == FirstIn(content, {"\n"})
         IN  IF i = 0 THEN <<content>>
             ELSE <<SubSeq(content, 1, i - 1)>>
                  \o ScanLines(SubSeq(content, i + 1, Len(content)))

\* strings.TrimSpace
TrimSpace(s) ==
    LET kept == {i \in 1..Len(s) : s[i] \notin Whitespace}
    IN  IF kept = {} THEN <<>>
        ELSE SubSeq(s, CHOOSE i \in kept : \A j \in kept : i <= j,
                       CHOOSE i \in kept : \A j \in kept : i >= j)

\* strings.HasPrefix(s, "-")
HasDashPrefix(s) == Len(s) > 0 /\ s[1] = "-"

\* regexp.MustCompile(`\s`).Split(arg, 2): cut at the first whitespace
\* character; what follows it is the second piece, unsplit
SplitAtWhitespace(arg) ==
    LET i == FirstIn(arg, Whitespace)
    IN  IF i = 0 THEN <<arg>>
        ELSE <<SubSeq(arg, 1, i - 1), SubSeq(arg, i + 1, Len(arg))>>

\* the loop of readArgsFile over the scanned lines, lines 238-245
RECURSIVE ArgsOfLines(_, _)
ArgsOfLines(lines, split) ==
    IF lines = <<>> THEN <<>>
    ELSE LET arg == TrimSpace(Head(lines))
             out == IF HasDashPrefix(arg) /\ split
                       THEN SplitAtWhitespace(arg)
                    ELSE IF ~split THEN <<arg>>
                    ELSE <<>>
         IN  out \o ArgsOfLines(Tail(lines), split)

\* readArgsFile: a file that cannot be opened gives no arguments
readArgsFile(file, split) ==
    IF ~file.exists THEN <<>>
    ELSE ArgsOfLines(ScanLines(file.content), split)

\* args(): one turn of the loop over the candidates, lines 120-122
ArgsReadFile ==
    /\ apc = "files"
    /\ argsOut' = argsOut \o readArgsFile(fsys[cand], TRUE)
    /\ cand' = IF cand < NumCandidates THEN cand + 1 ELSE cand
    /\ apc' = IF cand < NumCandidates THEN "files" ELSE "osargs"
    /\ UNCHANGED <<runVars, fsys, osArgs, envVars>>

\* args(): args = append(args, os.Args[1:]...); return args, lines 124-125
ArgsAppendOsArgs ==
    /\ apc = "osargs"
    /\ argsOut' = argsOut \o osArgs
    /\ apc' = "done"
    /\ UNCHANGED <<runVars, cand, fsys, osArgs, envVars>>

----------------------------------------------------------------------------
(* parseEnvs and readEnvs, lines 265-292, as used at lines 314-322 *)

TokenChars == {"k", "="}

\* a map with key k set to v
Put(m, k, v) == [x \in (DOMAIN m) \cup {k} |-> IF x = k THEN v ELSE m[x]]

\* strings.SplitN(envVar, "=", 2)
SplitN2(envVar) ==
    LET i == FirstIn(envVar, {"="})
    IN  IF i = 0 THEN <<envVar>>
        ELSE <<SubSeq(envVar, 1, i - 1), SubSeq(envVar, i + 1, Len(envVar))>>

\* the loop of parseEnvs, lines 267-274
RECURSIVE ParseInto(_, _)
ParseInto(env, m) ==
    IF env = <<>> THEN m
    ELSE LET e == SplitN2(Head(env))
         IN  ParseInto(Tail(env),
                       IF Len(e) = 2 THEN Put(m, e[1], e[2])
                                     ELSE Put(m, e[1], <<>>))

\* a slip: the loop of readEnvs keeps what an explicit token has set
MergeKeepingTokens(fileVars, m) ==
    [x \in (DOMAIN m) \cup (DOMAIN fileVars) |->
        IF x \in DOMAIN m THEN m[x] ELSE fileVars[x]]

\* the loop of readEnvs, lines 286-288
MergeFile(fileVars, m) ==
    [x \in (DOMAIN m) \cup (DOMAIN fileVars) |->
        IF x \in DOMAIN fileVars THEN fileVars[x] ELSE m[x]]

\* _ = parseEnvs(input.envs, envs)
ParseEnvs ==
    /\ epc = "parse"
    /\ envs' = ParseInto(envTokens, envs)
    /\ epc' = "read"
    /\ UNCHANGED <<runVars, argsVars, envTokens, envFile>>

\* _ = readEnvs(input.Envfile(), envs): a file os.Stat does not find is
\* skipped, a file godotenv.Read cannot parse ends the process (log.Fatalf)
ReadEnvs ==
    /\ epc = "read"
    /\ envs' = IF envFile.state = "ok" THEN MergeFile(envFile.vars, envs)
                                       ELSE envs
    /\ epc' = IF envFile.state = "malformed" THEN "fatal" ELSE "done"
    /\ UNCHANGED <<runVars, argsVars, envTokens, envFile>>

----------------------------------------------------------------------------
(* Initial states *)

RunLocalsInit ==
    /\ pc = "filter"
    /\ filterEventName = ""
    /\ filterPlan = NoPlan
    /\ eventName = ""
    /\ plan = NoPlan
    /\ stageErr = NotReturned
    /\ result = NotReturned
    /\ serveStarts = 0
    /\ cancelCalls = 0
    /\ execCalls = 0
    /\ inProgress = 0
    /\ outcomes = <<>>
    /\ ctxDone = FALSE
    /\ err = NilErr
    /\ bpc = "none"
    /\ running = FALSE
    /\ wasStopped = FALSE
    /\ pending = 0
    /\ detected = 0
    /\ received = 0
    /\ callsAtStop = 0
    /\ cancelPass = 0

ArgsIdle ==
    /\ apc = "idle"
    /\ cand = 1
    /\ fsys = <<>>
    /\ osArgs = <<>>
    /\ argsOut = <<>>

EnvIdle ==
    /\ epc = "idle"
    /\ envTokens = <<>>
    /\ envFile = [state |-> "missing", vars |-> <<>>]
    /\ envs = <<>>

\* every combination of the inputs of plan resolution
InitPlan ==
    /\ cmdArgs \in PositionalArgs
    /\ jobID \in JobIDs
    /\ autodetectEvent \in BOOLEAN
    /\ events \in EventLists
    /\ list \in BOOLEAN
    /\ graph \in BOOLEAN
    /\ watch = FALSE
    /\ artifactServerPath = ""
    /\ RunLocalsInit
    /\ ArgsIdle
    /\ EnvIdle

NextPlan ==
    \/ ResolveFilterPlan
    \/ PrintList
    \/ DrawGraph
    \/ ResolveExecPlan

SpecPlan == InitPlan /\ [][NextPlan]_vars

\* a run: the inputs of plan resolution are kept few, the modes are all there
InitRun ==
    /\ cmdArgs = <<>>
    /\ jobID \in JobIDs
    /\ autodetectEvent = FALSE
    /\ events = <<"pull_request">>
    /\ list \in BOOLEAN
    /\ graph \in BOOLEAN
    /\ watch \in BOOLEAN
    /\ artifactServerPath \in {"", "/tmp/artifacts"}
    /\ RunLocalsInit
    /\ ArgsIdle
    /\ EnvIdle

Init == InitRun

Next ==
    \/ ResolveFilterPlan
    \/ PrintList
    \/ DrawGraph
    \/ ResolveExecPlan
    \/ RunnerNewFails
    \/ ServeArtifacts
    \/ ExecStart
    \/ ExecMainEnd
    \/ ExecFinally
    \/ ExecReturn
    \/ CtxCancel
    \/ WatchGetwdFails
    \/ WatchStart
    \/ FgStop
    \/ FgReturn
    \/ BgCheck
    \/ BgCall
    \/ BgPassEnd
    \/ BgRecv
    \/ BgBatchPassEnd
    \/ WatcherDetect
    \/ WatcherHalt

Spec == Init /\ [][Next]_vars

RunIdle ==
    /\ cmdArgs = <<>>
    /\ jobID = ""
    /\ autodetectEvent = FALSE
    /\ events = <<>>
    /\ list = FALSE
    /\ graph = FALSE
    /\ watch = FALSE
    /\ artifactServerPath = ""
    /\ RunLocalsInit

\* the sequences over set of length at most n
SeqsUpTo(set, n) == UNION {[1..k -> set] : k \in 0..n}

\* every way to put at most MaxChars characters into the candidate files; a
\* candidate with no content may also be missing
InitArgs ==
    /\ RunIdle
    /\ EnvIdle
    /\ apc = "files"
    /\ cand = 1
    /\ argsOut = <<>>
    /\ osArgs \in {<<>>, <<<<"-", "a">>, <<"a">>>>}
    /\ \E text \in SeqsUpTo(FileChars, MaxChars) :
       \E i \in 0..Len(text) :
       \E j \in i..Len(text) :
       \E there \in [1..NumCandidates -> BOOLEAN] :
          LET cut == <<SubSeq(text, 1, i), SubSeq(text, i + 1, j),
                       SubSeq(text, j + 1, Len(text))>>
          IN  fsys = [n \in 1..NumCandidates |->
                        [exists  |-> cut[n] # <<>> \/ there[n],
                         content |-> cut[n]]]

NextArgs ==
    \/ ArgsReadFile
    \/ ArgsAppendOsArgs

SpecArgs == InitArgs /\ [][NextArgs]_vars

\* what godotenv.Read gives for the file
FileKeys   == {<<"k">>, <<"k", "k">>}
FileValues == {<<>>, <<"v">>}
FileMaps   == UNION {[keys -> FileValues] : keys \in SUBSET FileKeys}

InitEnv ==
    /\ RunIdle
    /\ ArgsIdle
    /\ epc = "parse"
    /\ envs = <<>>
    /\ envTokens \in SeqsUpTo(SeqsUpTo(TokenChars, MaxTokLen), MaxTokens)
    /\ \/ envFile \in [state : {"ok"}, vars : FileMaps]
       \/ envFile \in [state : {"missing", "malformed"}, vars : {<<>>}]

NextEnv ==
    \/ ParseEnvs
    \/ ReadEnvs

SpecEnv == InitEnv /\ [][NextEnv]_vars

----------------------------------------------------------------------------
(* Properties *)

NoPositional == Len(cmdArgs) = 0
Distinct(ev) == {ev[i] : i \in 1..Len(ev)}
AllPassesOk  == \A k \in 1..Len(outcomes) : outcomes[k] = NilErr

C2_Original ==
    /\ filterPlan # NoPlan =>
          filterPlan = IF jobID # "" THEN PlanJob(jobID)
                       ELSE IF ~NoPositional THEN PlanEvent(cmdArgs[1])
                       ELSE IF autodetectEvent /\ Len(events) > 0
                            THEN PlanEvent(events[1])
                       ELSE PlanAll
    /\ (/\ plan # NoPlan
        /\ Len(events) = 1
        /\ NoPositional
        /\ jobID = ""
        /\ ~autodetectEvent)
          => filterPlan = PlanAll /\ plan = PlanEvent(events[1])

\* C2, amended: the filter plan is PlanJob(jobID) if a job ID was given; else
\* PlanEvent(positional argument) if one was given and is not empty; else,
\* when no positional argument was given, PlanEvent(first discovered event)
\* if auto-detect is on and the list has a first entry that is not empty;
\* else PlanAll() (so also for an empty positional argument). With a list of
\* exactly one event that is not empty, no positional argument, no job ID and
\* auto-detect off, the filter plan is PlanAll() and the execution plan is
\* PlanEvent(that event).
C2_FilterPlan ==
    /\ filterPlan # NoPlan =>
          /\ jobID # "" => filterPlan = PlanJob(jobID)
          /\ jobID = "" /\ ~NoPositional /\ cmdArgs[1] # ""
                => filterPlan = PlanEvent(cmdArgs[1])
          /\ jobID = "" /\ ~NoPositional /\ cmdArgs[1] = ""
                => filterPlan = PlanAll
          /\ (/\ jobID = ""
              /\ NoPositional
              /\ autodetectEvent
              /\ Len(events) > 0
              /\ events[1] # "")
                => filterPlan = PlanEvent(events[1])
          /\ (/\ jobID = ""
              /\ NoPositional
              /\ (~autodetectEvent \/ Len(events) = 0 \/ events[1] = ""))
                => filterPlan = PlanAll
    /\ (/\ plan # NoPlan
        /\ Len(events) = 1
        /\ events[1] # ""
        /\ NoPositional
        /\ jobID = ""
        /\ ~autodetectEvent)
          => filterPlan = PlanAll /\ plan = PlanEvent(events[1])

\* one discovered event, nothing else given: the two plans differ
C2_Witness ==
    /\ pc = "planned"
    /\ jobID = ""
    /\ NoPositional
    /\ ~autodetectEvent
    /\ events = <<"pull_request">>
    /\ filterPlan = PlanAll
    /\ plan = PlanEvent("pull_request")

\* C3: in a run without --watch and with a storage path, the artifact
\* service is started exactly once and before the plan executor begins, its
\* cancel function is called exactly once and after the executor's main stage
\* has returned, whether it failed or not, and the invocation returns the
\* executor's error.
C3_ServiceAroundExecutor ==
    (~watch /\ artifactServerPath # "") =>
        /\ serveStarts <= 1
        /\ cancelCalls <= 1
        /\ execCalls > 0 => serveStarts = 1
        /\ cancelCalls = 1 =>
              execCalls = 1 /\ inProgress = 0 /\ Len(outcomes) = 1
        /\ (pc = "done" /\ execCalls > 0) =>
              cancelCalls = 1 /\ result = outcomes[1]

\* a failed run has returned the executor's error after one cancel
C3_Witness ==
    /\ ~watch
    /\ artifactServerPath # ""
    /\ pc = "done"
    /\ serveStarts = 1
    /\ cancelCalls = 1
    /\ result = ExecErr(1)

\* C4, as claimed: once a pass of the watch loop has returned an error, no
\* further pass is started and no further batch is consumed; with an executor
\* that fails on its second invocation the executor is invoked exactly twice.
C4_Original ==
    watch =>
        \A k \in 1..Len(outcomes) :
            outcomes[k] # NilErr => execCalls = k /\ received <= k - 1

C6_Original ==
    [][(pc = "wreturn" /\ pc' = "done" /\ result' = NilErr) => AllPassesOk]_vars

\* C7, as claimed: while the pass that was running when the cancellation
\* signal arrived is still running, the watcher is not stopped and
\* watchAndRun has not returned; and what watchAndRun returns is that pass's
\* outcome.
C7_Original ==
    /\ (cancelPass # 0 /\ inProgress > 0 /\ execCalls = cancelPass) =>
          ~wasStopped /\ pc # "done"
    /\ (cancelPass # 0 /\ pc = "done" /\ Len(outcomes) >= cancelPass) =>
          result = outcomes[cancelPass]

\* C8, as claimed: a watch-mode run with a storage path that was stopped by
\* cancellation has started the service once and called its cancel function
\* exactly once when the invocation returns.
C8_Original ==
    (watch /\ artifactServerPath # "" /\ wasStopped /\ pc = "done") =>
        serveStarts = 1 /\ cancelCalls = 1

\* C8, amended: in a watch-mode run with a storage path the artifact service
\* is started exactly once, before the first pass, and the invocation never
\* calls its cancel function: not between passes, not after the last pass
\* and not on cancellation before it returns.
C8_StartedOnceNeverCancelled ==
    (watch /\ artifactServerPath # "") =>
        /\ serveStarts <= 1
        /\ (execCalls > 0 \/ bpc # "none") => serveStarts = 1
        /\ cancelCalls = 0

\* a watch session with two passes was cancelled and has returned
C8_Witness ==
    /\ watch
    /\ artifactServerPath # ""
    /\ pc = "done"
    /\ wasStopped
    /\ Len(outcomes) >= 2
    /\ serveStarts = 1
    /\ cancelCalls = 0

\* the split the claim describes: at the first run of whitespace
SplitAtWhitespaceRun(arg) ==
    LET i == FirstIn(arg, Whitespace)
    IN  IF i = 0 THEN <<arg>>
        ELSE <<SubSeq(arg, 1, i - 1),
               TrimSpace(SubSeq(arg, i, Len(arg)))>>

RECURSIVE ClaimedArgsOfLines(_)
ClaimedArgsOfLines(lines) ==
    IF lines = <<>> THEN <<>>
    ELSE LET arg == TrimSpace(Head(lines))
         IN  (IF HasDashPrefix(arg) THEN SplitAtWhitespaceRun(arg) ELSE <<>>)
             \o ClaimedArgsOfLines(Tail(lines))

ClaimedFileArgs(file) ==
    IF file.exists THEN ClaimedArgsOfLines(ScanLines(file.content)) ELSE <<>>

\* C9, as claimed: what args() returns is, for the candidates in order, the
\* tokens of each existing file (a trimmed line that starts with '-' is split
\* into at most two tokens at its first run of whitespace, any other line
\* gives nothing, a missing file gives nothing), followed by the process's
\* own arguments.
C9_Original ==
    apc = "done" =>
        argsOut = ClaimedFileArgs(fsys[1]) \o ClaimedFileArgs(fsys[2])
                  \o ClaimedFileArgs(fsys[3]) \o osArgs

\* the key and the value a token stands for: the key is the text before the
\* first '=' (all of it if there is none), the value the text after it
KeyLen(t) ==
    CHOOSE n \in 0..Len(t) :
        /\ \A i \in 1..n : t[i] # "="
        /\ n = Len(t) \/ t[n + 1] = "="
TokenKey(t)   == SubSeq(t, 1, KeyLen(t))
TokenValue(t) == SubSeq(t, KeyLen(t) + 2, Len(t))

TokenKeys == {TokenKey(envTokens[i]) : i \in 1..Len(envTokens)}
LoadedKeys == IF envFile.state = "ok" THEN DOMAIN envFile.vars ELSE {}
LastTokenFor(k) ==
    CHOOSE i \in 1..Len(envTokens) :
        /\ TokenKey(envTokens[i]) = k
        /\ \A j \in (i + 1)..Len(envTokens) : TokenKey(envTokens[j]) # k

\* C10: after parseEnvs and readEnvs on one map, the map holds exactly the
\* keys of the tokens and of the loaded file; a key of the file has the
\* file's value, also when a token set it; a key only tokens set has the
\* value of the last token that set it (the text after the first '=', empty
\* for a bare key); with a missing file the map is what the tokens gave.
C10_Overlay ==
    epc = "done" =>
        /\ DOMAIN envs = TokenKeys \cup LoadedKeys
        /\ \A k \in LoadedKeys : envs[k] = envFile.vars[k]
        /\ \A k \in TokenKeys \ LoadedKeys :
              envs[k] = TokenValue(envTokens[LastTokenFor(k)])

\* a key set by a token and, differently, by the file has the file's value,
\* next to a key that only a token set
C10_Witness ==
    /\ epc = "done"
    /\ envFile.state = "ok"
    /\ \E i \in 1..Len(envTokens) :
          /\ TokenKey(envTokens[i]) \in LoadedKeys
          /\ TokenValue(envTokens[i]) # envFile.vars[TokenKey(envTokens[i])]
          /\ envs[TokenKey(envTokens[i])] = envFile.vars[TokenKey(envTokens[i])]
    /\ \E i \in 1..Len(envTokens) :
          /\ TokenKey(envTokens[i]) \notin LoadedKeys
          /\ envs[TokenKey(envTokens[i])] = <<"k">>

----------------------------------------------------------------------------
(* The run under the scheduling the Go runtime gives: a step of the         *)
(* foreground task, of the goroutine or of the watcher's polling goroutine  *)
(* that can be taken is taken in the end. The cancellation of the context   *)
(* and changes in the watched folder are up to the environment.             *)

Fairness ==
    /\ WF_vars(ResolveFilterPlan)
    /\ WF_vars(PrintList)
    /\ WF_vars(DrawGraph)
    /\ WF_vars(ResolveExecPlan)
    /\ WF_vars(ServeArtifacts)
    /\ WF_vars(ExecStart)
    /\ WF_vars(ExecMainEnd)
    /\ WF_vars(ExecFinally)
    /\ WF_vars(ExecReturn)
    /\ WF_vars(WatchStart)
    /\ WF_vars(FgStop)
    /\ WF_vars(FgReturn)
    /\ WF_vars(BgCheck)
    /\ WF_vars(BgCall)
    /\ WF_vars(BgPassEnd)
    /\ WF_vars(BgRecv)
    /\ WF_vars(BgBatchPassEnd)
    /\ WF_vars(WatcherHalt)

SpecFair == Init /\ [][Next]_vars /\ Fairness

\* C11: when --list or --graph is set the invocation builds the filter plan
\* and returns after printing it: the execution plan is never built, the
\* artifact service is never started and no plan executor is invoked, with
\* or without --watch.
C11_ListGraphOnly ==
    (list \/ graph) =>
        /\ plan = NoPlan
        /\ serveStarts = 0
        /\ execCalls = 0
        /\ bpc = "none"
        /\ pc \in {"filter", "listgraph", "done"}
        /\ pc = "done" => filterPlan # NoPlan

\* --graph with --watch and a storage path has returned
C11_Witness ==
    /\ graph
    /\ ~list
    /\ watch
    /\ artifactServerPath # ""
    /\ pc = "done"
    /\ filterPlan = PlanAll
    /\ plan = NoPlan
    /\ serveStarts = 0

\* C12, as claimed: when the watcher has been stopped while the goroutine
\* waits for the next batch after a successful pass, and no batch is left to
\* arrive, the goroutine leaves the loop in the end.
C12_Original ==
    (bpc = "recv" /\ wasStopped /\ pending = 0) ~> (bpc = "exit")

\* C13, as claimed: once folderWatcher.Stop() has been called no execution
\* pass starts: every call of the executor began before the stop.
C13_Original ==
    wasStopped => execCalls = callsAtStop

====
